---- MODULE Spec2Model ----
(***************************************************************************)
(* Trip planner backend (Express + Prisma): the request handlers of        *)
(* server.js, the three upstream clients and the Trip/User store.          *)
(*                                                                         *)
(* JavaScript values are records tagged with their type, so that           *)
(* undefined, strings and numbers can be told apart the way zod and the    *)
(* || and ?? operators tell them apart.  Numbers are kept in tenths so     *)
(* that a non-integer budget (1.5) is a value of the model.                *)
(***************************************************************************)
EXTENDS Integers, Sequences, FiniteSets, TLC

\* TLC keeps the fields of a record in the order in which their names first
\* occur in the module.  Every record of this module is written with its
\* fields in the order below, so that a record is in that order from the
\* moment it is built.
FieldOrder ==
    [addressLine1 |-> 1, addressLine2 |-> 2, address_line1 |-> 3, address_line2 |-> 4,
     attractions |-> 5, body |-> 6, budget |-> 7, call |-> 8, calls |-> 9,
     categories |-> 10, city |-> 11, coordinates |-> 12, count |-> 13, country |-> 14,
     daily |-> 15, data |-> 16, day |-> 17, destination |-> 18, details |-> 19,
     distance |-> 20, distanceMeters |-> 21, endDate |-> 22, error |-> 23,
     features |-> 24, geo |-> 25, html |-> 26, id |-> 27, inflight |-> 28,
     items |-> 29, lat |-> 30, latitude |-> 31, limit |-> 32, loading |-> 33,
     loads |-> 34, local |-> 35, location |-> 36, lon |-> 37, longitude |-> 38,
     message |-> 39, method |-> 40, name |-> 41, nextIdeas |-> 42, ok |-> 43,
     openingHours |-> 44, opening_hours |-> 45, path |-> 46, pc |-> 47, placeId |-> 48,
     place_id |-> 49, places |-> 50, planJson |-> 51, precipitation |-> 52,
     precipitation_sum |-> 53, query |-> 54, radiusMeters |-> 55, req |-> 56,
     resolved |-> 57, responses |-> 58, restaurants |-> 59, result |-> 60,
     results |-> 61, s |-> 62, service |-> 63, showAll |-> 64, startDate |-> 65,
     started |-> 66, status |-> 67, stored |-> 68, summary |-> 69, svc |-> 70,
     t |-> 71, tempMax |-> 72, tempMin |-> 73, temperature_2m_max |-> 74,
     temperature_2m_min |-> 75, tenths |-> 76, time |-> 77, timezone |-> 78,
     title |-> 79, trip |-> 80, userId |-> 81, valid |-> 82, vibe |-> 83,
     weather |-> 84, website |-> 85]

\* ------------------------------------------------------------------ bounds
\* Number of HTTP requests the server receives in one run.
MaxReq == 2

\* Number of features in one answer of the places service.
MaxFeatures == 2

\* Number of times the user plans a trip on the planner page, number of
\* loads the trip detail page starts, and length of the short place lists
\* the pages are given.
MaxPlans == 1
MaxLoads == 3
MaxPlaces == 2

\* ------------------------------------------------------- JavaScript values
Undefined == [t |-> "undefined"]
Null == [t |-> "null"]
Str(s) == [s |-> s, t |-> "string"]
Num(n) == [t |-> "number", tenths |-> n * 10]
Frac(tenths) == [t |-> "number", tenths |-> tenths]

\* A JSON array.
Array(items) == [items |-> items, t |-> "array"]

IsString(v) == v.t = "string"
IsNumber(v) == v.t = "number"

\* JavaScript truthiness, as used by || and by if (!x).
Truthy(v) ==
    CASE v.t = "undefined" -> FALSE
      [] v.t = "null" -> FALSE
      [] v.t = "string" -> v.s # ""
      [] v.t = "number" -> v.tenths # 0
      [] OTHER -> TRUE

\* a || b
JsOr(a, b) == IF Truthy(a) THEN a ELSE b

\* a ?? b
JsNullish(a, b) == IF a.t \in {"undefined", "null"} THEN b ELSE a

\* ------------------------------------------------------------ PlanTripSchema
Vibes == {"techno", "nature", "relax", "food", "mixed"}

Fields == {"userId", "destination", "startDate", "endDate", "budget", "vibe"}

\* z.string().min(n)
ZStringMin(v, n) == IsString(v) /\ Len(v.s) >= n

\* Mutant: the budget rule without .positive().
ZPositiveIntNotPositive(v) == IsNumber(v) /\ v.tenths % 10 = 0

\* z.number().int().positive()
ZPositiveInt(v) == IsNumber(v) /\ v.tenths % 10 = 0 /\ v.tenths > 0

\* z.enum([...])
ZVibe(v) == IsString(v) /\ v.s \in Vibes

\* Does one field of the body satisfy its rule of PlanTripSchema?
FieldOk(body, f) ==
    CASE f = "userId" -> ZStringMin(body[f], 1)
      [] f = "destination" -> ZStringMin(body[f], 2)
      [] f = "startDate" -> ZStringMin(body[f], 8)
      [] f = "endDate" -> ZStringMin(body[f], 8)
      [] f = "budget" -> ZPositiveInt(body[f])
      [] f = "vibe" -> ZVibe(body[f])

\* parsed.error.flatten().fieldErrors: the fields that failed.
FieldErrors(body) == {f \in Fields : ~FieldOk(body, f)}

\* PlanTripSchema.safeParse(req.body).success
SafeParseSuccess(body) == FieldErrors(body) = {}

\* ------------------------------------------------------------ program state
VARIABLES
    users,      \* ids of the User rows of the store
    trips,      \* the Trip rows of the store, in insertion order
    apiKey,     \* process.env.GEOAPIFY_API_KEY
    nreq,       \* number of requests received so far
    req,        \* req[r]: the request (method, path, query, body)
    pc,         \* pc[r]: where the handler of request r is
    local,      \* local[r]: the handler's local variables
    responses,  \* responses[r]: the responses sent for request r, in order
    net,        \* the calls in flight: records [req, call]
    log,        \* history: log[r], the outbound and store calls request r issued
    got,        \* history: got[r], the answers request r received to them
    owner,      \* history: owner[i], the request that inserted trips[i] (0: seed)
    upstream,   \* fetchPlaces alone: the answer of the places service
    placesOut,  \* fetchPlaces alone: what the call returned or threw
    planner,    \* web client: the state of PlannerPage and its PlacesSections
    detail      \* web client: the state of TripDetailPage

serverVars == <<users, trips, apiKey, nreq, req, pc, local, responses, net, log, got, owner>>

placesVars == <<upstream, placesOut>>

webVars == <<planner, detail>>

vars == <<serverVars, placesVars, webVars>>

ReqIds == 1..MaxReq

\* ------------------------------------------------------------- new Date(s)
\* The date strings of the model that JavaScript parses, with the day number
\* (days since 1970-01-01) of the instant they denote.
DateStrings == {"2026-02-10", "2026-02-14", "2026-07-10", "2026-07-14"}

DayOf(d) ==
    CASE d = "2026-02-10" -> 20494
      [] d = "2026-02-14" -> 20498
      [] d = "2026-07-10" -> 20644
      [] d = "2026-07-14" -> 20648

InvalidDate == [day |-> 0, t |-> "date", valid |-> FALSE]

\* new Date(str): a Date, or Invalid Date when the string does not parse.
NewDate(v) ==
    IF IsString(v) /\ v.s \in DateStrings
    THEN [day |-> DayOf(v.s), t |-> "date", valid |-> TRUE]
    ELSE InvalidDate

\* ------------------------------------------------------------- the store
\* Ids the store hands to new rows (generated by the database).
IdTable == <<"t1", "t2", "t3", "t4", "t5", "t6", "t7", "t8">>

TripIdsStored == {trips[i].id : i \in 1..Len(trips)}

\* seed.js: the demo user and the demo trip.
SeedUser == "u1"

SeedTrip ==
    [budget |-> Num(1500),
     destination |-> "Amsterdam",
     endDate |-> NewDate(Str("2026-07-14")),
     id |-> IdTable[1],
     planJson |-> [summary |-> "Seeded trip plan JSON (MVP)."],
     startDate |-> NewDate(Str("2026-07-10")),
     title |-> <<"Amsterdam", "trip">>,
     userId |-> SeedUser,
     vibe |-> "techno"]

\* Mutant: a create that does not require the connected user to exist.
CreateErrorNoForeignKey(data, dbUp) ==
    IF ~dbUp THEN "Can't reach database server"
    ELSE IF ~data.startDate.valid \/ ~data.endDate.valid
         THEN "Invalid value for argument: Provided Date object is invalid"
    ELSE ""

\* prisma.trip.create({data}): the error it raises, or "" when the row can be
\* inserted.  dbUp is whether the database answers at all.
CreateError(data, dbUp) ==
    IF ~dbUp THEN "Can't reach database server"
    ELSE IF ~data.startDate.valid \/ ~data.endDate.valid
         THEN "Invalid value for argument: Provided Date object is invalid"
    ELSE IF data.userId \notin users
         THEN "No 'User' record was found for a nested connect on 'Trip'"
    ELSE ""

\* The row the store inserts for data.
NewRow(data) == [id |-> IdTable[Len(trips) + 1]] @@ data

\* prisma.trip.findUnique({where: {id}}): the row, or Null.
FindUnique(id) ==
    IF id \in TripIdsStored
    THEN CHOOSE row \in {trips[i] : i \in 1..Len(trips)} : row.id = id
    ELSE Null

\* ------------------------------------------------------ upstream answers
\* What the three upstream services may answer to one HTTP request: a
\* non-success status, or a success with a JSON document.
FailStatus == 503

AmsterdamHit ==
    [country |-> Str("Netherlands"),
     latitude |-> 52,
     longitude |-> 5,
     name |-> Str("Amsterdam"),
     timezone |-> Str("Europe/Amsterdam")]

GeoAnswers ==
    {[ok |-> FALSE, results |-> <<>>, status |-> FailStatus],
     [ok |-> TRUE, results |-> <<>>, status |-> 200],
     [ok |-> TRUE, results |-> <<AmsterdamHit>>, status |-> 200]}

Daily2 ==
    [precipitation_sum |-> <<0, 4>>,
     temperature_2m_max |-> <<7, 9>>,
     temperature_2m_min |-> <<1, 3>>,
     time |-> <<"2026-02-10", "2026-02-11">>]

WeatherAnswers ==
    {[daily |-> Undefined, ok |-> FALSE, status |-> FailStatus],
     [daily |-> Daily2, ok |-> TRUE, status |-> 200]}

\* Two upstream features: one with every property, one with little more than
\* an address.
FeatureFull ==
    [address_line1 |-> Str("Damrak 1"),
     address_line2 |-> Str("1012 Amsterdam"),
     categories |-> Array(<<"catering", "catering.cafe">>),
     city |-> Str("Amsterdam"),
     coordinates |-> <<5, 52>>,
     country |-> Str("Netherlands"),
     distance |-> Num(350),
     name |-> Str("Cafe One"),
     opening_hours |-> Str("Mo-Su 09:00-18:00"),
     place_id |-> Str("p1"),
     website |-> Str("https://one.example")]

FeatureBare ==
    [address_line1 |-> Str("Kalverstraat 2"),
     address_line2 |-> Undefined,
     categories |-> Undefined,
     city |-> Undefined,
     coordinates |-> <<5, 52>>,
     country |-> Undefined,
     distance |-> Undefined,
     name |-> Undefined,
     opening_hours |-> Undefined,
     place_id |-> Str("p2"),
     website |-> Undefined]

PlacesAnswers ==
    {[features |-> <<>>, ok |-> FALSE, status |-> FailStatus],
     [features |-> <<FeatureBare, FeatureFull>>, ok |-> TRUE, status |-> 200]}

\* ------------------------------------------------------------- geocodeCity
\* The request geocodeCity sends.
GeocodeCall(destination) == [count |-> 1, name |-> destination, svc |-> "geocoding"]

\* What geocodeCity returns for an answer with resp.ok: null, or the
\* normalized top result.
GeocodeResult(answer) ==
    IF Len(answer.results) = 0 THEN Null
    ELSE LET top == answer.results[1] IN
         [country |-> top.country,
          latitude |-> top.latitude,
          longitude |-> top.longitude,
          name |-> top.name,
          t |-> "object",
          timezone |-> top.timezone]

\* ------------------------------------------------------------ fetchWeather
WeatherCall(latitude, longitude, timezone) ==
    [latitude |-> latitude,
     longitude |-> longitude,
     svc |-> "weather",
     timezone |-> JsOr(timezone, Str("auto"))]

\* data?.daily?.x || []
DailyArray(daily, field) == IF daily = Undefined THEN <<>> ELSE daily[field]

WeatherResult(answer) ==
    [precipitation |-> DailyArray(answer.daily, "precipitation_sum"),
     tempMax |-> DailyArray(answer.daily, "temperature_2m_max"),
     tempMin |-> DailyArray(answer.daily, "temperature_2m_min"),
     time |-> DailyArray(answer.daily, "time")]

\* ------------------------------------------------------------- fetchPlaces
RestaurantRadius == 5000
AttractionRadius == 8000
PlacesLimit == 12

PlacesCall(lon, lat, radiusMeters, categories, limit) ==
    [categories |-> categories,
     lat |-> lat,
     limit |-> limit,
     lon |-> lon,
     radiusMeters |-> radiusMeters,
     svc |-> "places"]

RestaurantsCall(geo) ==
    PlacesCall(geo.longitude, geo.latitude, RestaurantRadius,
               "catering.restaurant,catering.cafe", PlacesLimit)

AttractionsCall(geo) ==
    PlacesCall(geo.longitude, geo.latitude, AttractionRadius,
               "tourism.attraction,tourism.sights", PlacesLimit)

\* coords[i] of a JavaScript array (i counted from 1 here).
CoordAt(coords, i) == IF i <= Len(coords) THEN Num(coords[i]) ELSE Undefined

\* Mutant: the distance defaulted with || instead of ??.
NormalizePlaceDistanceOr(f) ==
    [addressLine1 |-> JsOr(f.address_line1, Str("")),
     addressLine2 |-> JsOr(f.address_line2, Str("")),
     categories |-> JsOr(f.categories, Array(<<>>)).items,
     city |-> JsOr(f.city, Str("")),
     country |-> JsOr(f.country, Str("")),
     distanceMeters |-> JsOr(f.distance, Null),
     location |-> [lat |-> CoordAt(f.coordinates, 2), lon |-> CoordAt(f.coordinates, 1)],
     name |-> JsOr(JsOr(f.name, f.address_line1), Str("Unknown place")),
     openingHours |-> JsOr(f.opening_hours, Null),
     placeId |-> f.place_id,
     website |-> JsOr(f.website, Null)]

\* The place record fetchPlaces makes of one upstream feature.
NormalizePlace(f) ==
    [addressLine1 |-> JsOr(f.address_line1, Str("")),
     addressLine2 |-> JsOr(f.address_line2, Str("")),
     categories |-> JsOr(f.categories, Array(<<>>)).items,
     city |-> JsOr(f.city, Str("")),
     country |-> JsOr(f.country, Str("")),
     distanceMeters |-> JsNullish(f.distance, Null),
     location |-> [lat |-> CoordAt(f.coordinates, 2), lon |-> CoordAt(f.coordinates, 1)],
     name |-> JsOr(JsOr(f.name, f.address_line1), Str("Unknown place")),
     openingHours |-> JsOr(f.opening_hours, Null),
     placeId |-> f.place_id,
     website |-> JsOr(f.website, Null)]

\* features.map(...)
PlacesResult(answer) == [i \in 1..Len(answer.features) |-> NormalizePlace(answer.features[i])]

\* -------------------------------------------------------- POST /api/trips/plan
\* The plan document the handler assembles.
PlanJson(body, geo, weather, restaurants, attractions) ==
    [destination |->
        [latitude |-> geo.latitude, longitude |-> geo.longitude,
         query |-> body.destination.s,
         resolved |-> <<geo.name.s, ", ", geo.country.s>>,
         timezone |-> geo.timezone],
     nextIdeas |-> <<"Add Place Details endpoint", "Add caching", "Add pagination">>,
     places |-> [attractions |-> attractions, restaurants |-> restaurants],
     summary |-> <<"A ", body.vibe.s, " trip to ", geo.name.s, " within $", body.budget>>,
     trip |-> [budget |-> body.budget, endDate |-> body.endDate.s,
               startDate |-> body.startDate.s, vibe |-> body.vibe.s],
     weather |-> [daily |-> weather]]

\* Mutant: the row keeps the destination as typed.
TripDataLiteralDestination(body, geo, planJson) ==
    [budget |-> body.budget,
     destination |-> body.destination.s,
     endDate |-> NewDate(body.endDate),
     planJson |-> planJson,
     startDate |-> NewDate(body.startDate),
     title |-> <<geo.name.s, "trip">>,
     userId |-> body.userId.s,
     vibe |-> body.vibe.s]

\* The data handed to prisma.trip.create.
TripData(body, geo, planJson) ==
    [budget |-> body.budget,
     destination |-> geo.name.s,
     endDate |-> NewDate(body.endDate),
     planJson |-> planJson,
     startDate |-> NewDate(body.startDate),
     title |-> <<geo.name.s, "trip">>,
     userId |-> body.userId.s,
     vibe |-> body.vibe.s]

\* What a handler does between two awaits: where it goes next, the calls it
\* issues, the responses it sends and its local variables afterwards.
NoLocal == [attractions |-> <<>>,
            geo |-> Null,
            restaurants |-> <<>>,
            weather |-> WeatherResult([daily |-> Undefined])]

Await(at, call, loc) == [calls |-> <<call>>, local |-> loc, pc |-> at, responses |-> <<>>]

\* res.status(status).json(body), and the handler returns.
Respond(status, body) ==
    [calls |-> <<>>,
     local |-> NoLocal,
     pc |-> "done",
     responses |-> <<[body |-> body, status |-> status]>>]

\* The catch block of the plan handler.
ServerError(message) == Respond(500, [error |-> "Server error", message |-> message])

\* Mutant: fetchPlaces without its guard; the request goes out with no key.
FetchPlacesUnguarded(key, at, call, loc) == Await(at, call, loc)

\* fetchPlaces up to its fetch: the missing-key guard, then the request.
FetchPlaces(key, at, call, loc) ==
    IF ~Truthy(key) THEN ServerError(<<"Missing GEOAPIFY_API_KEY in backend/.env">>)
    ELSE Await(at, call, loc)

\* From the start of the handler to the await of geocodeCity.
PlanOnRequest(body) ==
    IF ~SafeParseSuccess(body)
    THEN Respond(400, [details |-> FieldErrors(body), error |-> "Invalid input"])
    ELSE Await("geo", GeocodeCall(body.destination.s), NoLocal)

\* Mutant: no match is thrown as an error instead of answered with 404.
PlanOnGeocodeThrowsNoMatch(body, loc, answer) ==
    IF ~answer.ok THEN ServerError(<<"Geocoding failed with status", answer.status>>)
    ELSE LET geo == GeocodeResult(answer) IN
         IF ~Truthy(geo)
         THEN ServerError(<<"Could not find coordinates for", body.destination.s>>)
         ELSE Await("weather", WeatherCall(geo.latitude, geo.longitude, geo.timezone),
                    [loc EXCEPT !.geo = geo])

\* From the geocoding answer to the await of fetchWeather.
PlanOnGeocode(body, loc, answer) ==
    IF ~answer.ok THEN ServerError(<<"Geocoding failed with status", answer.status>>)
    ELSE LET geo == GeocodeResult(answer) IN
         IF ~Truthy(geo)
         THEN Respond(404, [error |-> "Destination not found",
                            message |-> <<"Could not find coordinates for", body.destination.s>>])
         ELSE Await("weather", WeatherCall(geo.latitude, geo.longitude, geo.timezone),
                    [loc EXCEPT !.geo = geo])

\* Mutant: fetchWeather without the resp.ok check.
PlanOnWeatherIgnoresStatus(body, loc, answer, key) ==
    FetchPlaces(key, "restaurants", RestaurantsCall(loc.geo),
                [loc EXCEPT !.weather = WeatherResult(answer)])

\* Mutant: both places requests are issued together (Promise.all).
PlanOnWeatherParallelPlaces(body, loc, answer, key) ==
    IF ~answer.ok THEN ServerError(<<"Weather failed with status", answer.status>>)
    ELSE IF ~Truthy(key) THEN ServerError(<<"Missing GEOAPIFY_API_KEY in backend/.env">>)
    ELSE [calls |-> <<RestaurantsCall(loc.geo), AttractionsCall(loc.geo)>>,
          local |-> [loc EXCEPT !.weather = WeatherResult(answer)],
          pc |-> "restaurants",
          responses |-> <<>>]

\* From the weather answer to the await of the restaurants request.
PlanOnWeather(body, loc, answer, key) ==
    IF ~answer.ok THEN ServerError(<<"Weather failed with status", answer.status>>)
    ELSE FetchPlaces(key, "restaurants", RestaurantsCall(loc.geo),
                     [loc EXCEPT !.weather = WeatherResult(answer)])

\* Mutant: the attractions filter follows the vibe.
PlanOnRestaurantsVibeFilter(body, loc, answer, key) ==
    IF ~answer.ok THEN ServerError(<<"Geoapify Places failed with status", answer.status>>)
    ELSE FetchPlaces(key, "attractions",
                     IF body.vibe.s = "food"
                     THEN PlacesCall(loc.geo.longitude, loc.geo.latitude, AttractionRadius,
                                     "catering.food_court", PlacesLimit)
                     ELSE AttractionsCall(loc.geo),
                     [loc EXCEPT !.restaurants = PlacesResult(answer)])

\* From the restaurants answer to the await of the attractions request.
PlanOnRestaurants(body, loc, answer, key) ==
    IF ~answer.ok THEN ServerError(<<"Geoapify Places failed with status", answer.status>>)
    ELSE FetchPlaces(key, "attractions", AttractionsCall(loc.geo),
                     [loc EXCEPT !.restaurants = PlacesResult(answer)])

\* The prisma.trip.create call of the handler.
CreateCall(data) == [data |-> data, svc |-> "trip.create"]

\* From the attractions answer to the await of prisma.trip.create.
PlanOnAttractions(body, loc, answer) ==
    IF ~answer.ok THEN ServerError(<<"Geoapify Places failed with status", answer.status>>)
    ELSE LET attractions == PlacesResult(answer)
             planJson == PlanJson(body, loc.geo, loc.weather, loc.restaurants, attractions)
         IN Await("create", CreateCall(TripData(body, loc.geo, planJson)),
                  [loc EXCEPT !.attractions = attractions])

\* Mutant: the 201 is followed by the catch block's 500.
PlanOnCreateRespondsTwice(err, row) ==
    IF err # "" THEN ServerError(<<err>>)
    ELSE [calls |-> <<>>,
          local |-> NoLocal,
          pc |-> "done",
          responses |-> Respond(201, row).responses
                        \o ServerError(<<"Cannot set headers after they are sent">>).responses]

\* From the end of prisma.trip.create to the response: err is the error the
\* store raised ("" for none), row the inserted row.
PlanOnCreate(err, row) ==
    IF err # "" THEN ServerError(<<err>>) ELSE Respond(201, row)

\* --------------------------------------------------------- GET /api/trips/:id
FindCall(id) == [id |-> id, svc |-> "trip.findUnique"]

GetTripOnRequest(id) == Await("find", FindCall(id), NoLocal)

\* The handler has no try/catch: when findUnique rejects, the rejection
\* leaves the async handler.  What becomes of it depends on the framework
\* version and mode the server is run with: the rejection is dropped and the
\* request gets no response (Express 4), or the default error handler
\* answers 500 with its own page, which shows the error only outside
\* production (Express 5).
RejectOutcomes == {"unhandled", "errorPage", "errorPageWithStack"}

GetTripOnReject(err, onReject) ==
    IF onReject = "unhandled"
    THEN [calls |-> <<>>, local |-> NoLocal, pc |-> "done", responses |-> <<>>]
    ELSE IF onReject = "errorPage"
         THEN Respond(500, [html |-> <<"Internal Server Error", "">>])
    ELSE Respond(500, [html |-> <<"Error: ", err>>])

\* Mutant: the handler without its 404 branch.
GetTripOnFindNo404(err, trip, onReject) ==
    IF err # "" THEN GetTripOnReject(err, onReject) ELSE Respond(200, trip)

GetTripOnFind(err, trip, onReject) ==
    IF err # "" THEN GetTripOnReject(err, onReject)
    ELSE IF trip = Null THEN Respond(404, [error |-> "Trip not found"])
    ELSE Respond(200, trip)

\* ------------------------------------------------------------ GET /api/health
HealthOnRequest == Respond(200, [ok |-> TRUE, service |-> "trip-planner-api"])

\* -------------------------------------------------------------------- routing
\* The route of server.js that matches a request; "none" when no route does
\* and the framework answers 404 itself.
Route(method, path) ==
    IF method = "GET" /\ path = <<"api", "health">> THEN "health"
    ELSE IF method = "POST" /\ path = <<"api", "trips", "plan">> THEN "plan"
    ELSE IF method = "GET" /\ Len(path) = 3 /\ path[1] = "api" /\ path[2] = "trips"
         THEN "getTrip"
    ELSE "none"

NotFoundByFramework(method, path) == Respond(404, [html |-> <<"Cannot", method, path>>])

\* ------------------------------------------------------------ the requests
\* The plan bodies of the model: a valid body and every body that differs
\* from it in one field.
BaseBody ==
    [budget |-> Num(1200),
     destination |-> Str("ams"),
     endDate |-> Str("2026-02-14"),
     startDate |-> Str("2026-02-10"),
     userId |-> Str("u1"),
     vibe |-> Str("techno")]

FieldValues(f) ==
    CASE f = "userId" -> {Str("u9"), Str(""), Undefined}
      [] f = "destination" -> {Str("A"), Undefined}
      [] f = "startDate" -> {Str("notadate"), Str("2026"), Undefined}
      [] f = "endDate" -> {Num(20260214), Undefined}
      [] f = "budget" -> {Num(0), Num(-5), Frac(15), Str("1200"), Undefined}
      [] f = "vibe" -> {Str("food"), Str("party"), Undefined}

PlanBodies ==
    {BaseBody} \cup {[BaseBody EXCEPT ![f] = v] : <<f, v>> \in
                        UNION {{<<g, w>> : w \in FieldValues(g)} : g \in Fields}}

EmptyBody ==
    [budget |-> Undefined,
     destination |-> Undefined,
     endDate |-> Undefined,
     startDate |-> Undefined,
     userId |-> Undefined,
     vibe |-> Undefined]

PlanRequests ==
    {[body |-> b, method |-> "POST", path |-> <<"api", "trips", "plan">>, query |-> Undefined] :
        b \in PlanBodies}

GetRequests ==
    {[body |-> EmptyBody, method |-> "GET", path |-> p, query |-> q] :
        p \in {<<"api", "health">>, <<"api", "trips", "t1">>, <<"api", "trips", "t2">>,
               <<"api", "trips">>},
        q \in {Undefined}}
    \cup
    {[body |-> EmptyBody, method |-> "GET", path |-> <<"api", "trips">>, query |-> Str(u)] :
        u \in {"u1", "u9"}}

Requests == PlanRequests \cup GetRequests

NoRequest == [body |-> EmptyBody, method |-> "", path |-> <<>>, query |-> Undefined]

\* ------------------------------------------------------------------- actions
ServerInit ==
    /\ users = {SeedUser}
    /\ trips = <<SeedTrip>>
    /\ apiKey \in {Undefined, Str("key")}
    /\ nreq = 0
    /\ req = [r \in ReqIds |-> NoRequest]
    /\ pc = [r \in ReqIds |-> "idle"]
    /\ local = [r \in ReqIds |-> NoLocal]
    /\ responses = [r \in ReqIds |-> <<>>]
    /\ net = {}
    /\ log = [r \in ReqIds |-> <<>>]
    /\ got = [r \in ReqIds |-> <<>>]
    /\ owner = <<0>>

\* No call of fetchPlaces is looked at on its own.
PlacesIdle == upstream = Undefined /\ placesOut = Undefined

\* PlannerPage as mounted: its useState initial values.
PlannerMounted ==
    [error |-> <<>>,
     inflight |-> FALSE,
     loading |-> FALSE,
     result |-> Null,
     showAll |-> [attractions |-> FALSE, restaurants |-> FALSE],
     started |-> 0]

\* TripDetailPage mounted at /trips/:id, after its effect has run once.
DetailMounted(id) ==
    [error |-> <<>>,
     id |-> id,
     loading |-> TRUE,
     loads |-> {[id |-> id, started |-> 1]},
     started |-> 1,
     trip |-> Null]

\* No page of the web client is looked at.
WebIdle ==
    /\ planner = PlannerMounted
    /\ detail = [error |-> <<>>, id |-> "", loading |-> TRUE, loads |-> {}, started |-> 0,
                 trip |-> Null]

Init == ServerInit /\ PlacesIdle /\ WebIdle

\* Request r takes the step `out`, which completes the calls in `completed`
\* with `answer`.
Step(r, completed, answer, out) ==
    /\ got' = IF completed = {} THEN got ELSE [got EXCEPT ![r] = Append(@, answer)]
    /\ pc' = [pc EXCEPT ![r] = out.pc]
    /\ local' = [local EXCEPT ![r] = out.local]
    /\ responses' = [responses EXCEPT ![r] = @ \o out.responses]
    /\ log' = [log EXCEPT ![r] = @ \o out.calls]
    /\ net' = (net \ completed) \cup
              {[call |-> out.calls[i], req |-> r] : i \in 1..Len(out.calls)}
    /\ UNCHANGED <<placesVars, webVars>>

\* The requests that reach each route of the server.
RoutedTo(route) == {request \in Requests : Route(request.method, request.path) = route}

HealthRequests == RoutedTo("health")
PlanRouteRequests == RoutedTo("plan")
GetTripRequests == RoutedTo("getTrip")
UnroutedRequests == RoutedTo("none")

\* The server receives its next request and runs the matching handler up to
\* its first await.  Requests are numbered in the order they arrive.
Receive(r, request, out) ==
    /\ nreq' = r
    /\ req' = [req EXCEPT ![r] = request]
    /\ Step(r, {}, Undefined, out)
    /\ UNCHANGED <<users, trips, apiKey, owner>>

ReceiveHealth(r) ==
    /\ r = nreq + 1
    /\ \E request \in HealthRequests : Receive(r, request, HealthOnRequest)

ReceivePlan(r) ==
    /\ r = nreq + 1
    /\ \E request \in PlanRouteRequests : Receive(r, request, PlanOnRequest(request.body))

ReceiveGetTrip(r) ==
    /\ r = nreq + 1
    /\ \E request \in GetTripRequests :
            Receive(r, request, GetTripOnRequest(request.path[3]))

ReceiveUnrouted(r) ==
    /\ r = nreq + 1
    /\ \E request \in UnroutedRequests :
            Receive(r, request, NotFoundByFramework(request.method, request.path))

\* History: what the store answered, and the ids it held at that moment.
StoreAnswer(err) == [error |-> err, ok |-> err = "", stored |-> TripIdsStored]

\* The call of request r that is in flight to svc, while the handler awaits it.
InFlight(r, at, svc) == {m \in net : m.req = r /\ m.call.svc = svc /\ pc[r] = at}

GeocodeReturns(r) ==
    \E m \in InFlight(r, "geo", "geocoding"), answer \in GeoAnswers :
        /\ Step(r, {m}, answer, PlanOnGeocode(req[r].body, local[r], answer))
        /\ UNCHANGED <<users, trips, apiKey, nreq, req, owner>>

WeatherReturns(r) ==
    \E m \in InFlight(r, "weather", "weather"), answer \in WeatherAnswers :
        /\ Step(r, {m}, answer, PlanOnWeather(req[r].body, local[r], answer, apiKey))
        /\ UNCHANGED <<users, trips, apiKey, nreq, req, owner>>

RestaurantsReturn(r) ==
    \E m \in InFlight(r, "restaurants", "places"), answer \in PlacesAnswers :
        /\ Step(r, {m}, answer, PlanOnRestaurants(req[r].body, local[r], answer, apiKey))
        /\ UNCHANGED <<users, trips, apiKey, nreq, req, owner>>

AttractionsReturn(r) ==
    \E m \in InFlight(r, "attractions", "places"), answer \in PlacesAnswers :
        /\ Step(r, {m}, answer, PlanOnAttractions(req[r].body, local[r], answer))
        /\ UNCHANGED <<users, trips, apiKey, nreq, req, owner>>

\* Mutant: the write deduplicates, answering with the row already stored for
\* the same data.
CreateReturnsDeduplicates(r) ==
    \E m \in InFlight(r, "create", "trip.create"), dbUp \in BOOLEAN :
        LET err == CreateError(m.call.data, dbUp)
            same == {i \in 1..Len(trips) : trips[i] = [id |-> trips[i].id] @@ m.call.data}
            fresh == err = "" /\ same = {}
            row == IF same = {} THEN NewRow(m.call.data)
                   ELSE trips[CHOOSE i \in same : TRUE]
        IN /\ trips' = IF fresh THEN Append(trips, row) ELSE trips
           /\ owner' = IF fresh THEN Append(owner, r) ELSE owner
           /\ Step(r, {m}, StoreAnswer(err), PlanOnCreate(err, row))
           /\ UNCHANGED <<users, apiKey, nreq, req>>

\* Mutant: the write is an upsert on (userId, destination): a row the user
\* already has for the destination is overwritten in place.
CreateReturnsUpserts(r) ==
    \E m \in InFlight(r, "create", "trip.create"), dbUp \in BOOLEAN :
        LET err == CreateError(m.call.data, dbUp)
            old == {i \in 1..Len(trips) : /\ trips[i].userId = m.call.data.userId
                                          /\ trips[i].destination = m.call.data.destination}
            at == IF old = {} THEN 0 ELSE CHOOSE i \in old : TRUE
            row == IF at = 0 THEN NewRow(m.call.data)
                   ELSE [id |-> trips[at].id] @@ m.call.data
        IN /\ trips' = IF err # "" THEN trips
                       ELSE IF at = 0 THEN Append(trips, row)
                       ELSE [trips EXCEPT ![at] = row]
           /\ owner' = IF err # "" THEN owner
                       ELSE IF at = 0 THEN Append(owner, r)
                       ELSE [owner EXCEPT ![at] = r]
           /\ Step(r, {m}, StoreAnswer(err), PlanOnCreate(err, row))
           /\ UNCHANGED <<users, apiKey, nreq, req>>

\* prisma.trip.create completes: the row is inserted, or the store raises.
CreateReturns(r) ==
    \E m \in InFlight(r, "create", "trip.create"), dbUp \in BOOLEAN :
        LET err == CreateError(m.call.data, dbUp)
            row == NewRow(m.call.data)
        IN /\ trips' = IF err = "" THEN Append(trips, row) ELSE trips
           /\ owner' = IF err = "" THEN Append(owner, r) ELSE owner
           /\ Step(r, {m}, StoreAnswer(err), PlanOnCreate(err, row))
           /\ UNCHANGED <<users, apiKey, nreq, req>>

\* prisma.trip.findUnique completes.
FindReturns(r) ==
    \E m \in InFlight(r, "find", "trip.findUnique"), dbUp \in BOOLEAN,
       onReject \in RejectOutcomes :
        LET err == IF dbUp THEN "" ELSE "Can't reach database server" IN
        /\ Step(r, {m}, StoreAnswer(err), GetTripOnFind(err, FindUnique(m.call.id), onReject))
        /\ UNCHANGED <<users, trips, apiKey, nreq, req, owner>>

Next ==
    \E r \in ReqIds :
        \/ ReceiveHealth(r)
        \/ ReceivePlan(r)
        \/ ReceiveGetTrip(r)
        \/ ReceiveUnrouted(r)
        \/ GeocodeReturns(r)
        \/ WeatherReturns(r)
        \/ RestaurantsReturn(r)
        \/ AttractionsReturn(r)
        \/ CreateReturns(r)
        \/ FindReturns(r)

Spec == Init /\ [][Next]_vars

\* The same, with every outbound call and every operation of the store
\* completing eventually.
FairSpec ==
    /\ Spec
    /\ \A r \in ReqIds :
        /\ WF_vars(GeocodeReturns(r))
        /\ WF_vars(WeatherReturns(r))
        /\ WF_vars(RestaurantsReturn(r))
        /\ WF_vars(AttractionsReturn(r))
        /\ WF_vars(CreateReturns(r))
        /\ WF_vars(FindReturns(r))

\* ------------------------------------------------------- fetchPlaces alone
\* One call of fetchPlaces against every answer the places service may give:
\* a non-success status, or a FeatureCollection of up to MaxFeatures features
\* whose properties are present or missing in every combination.
FeatureDomain ==
    {[address_line1 |-> a,
      address_line2 |-> Undefined,
      categories |-> c,
      city |-> Undefined,
      coordinates |-> <<5, 52>>,
      country |-> Undefined,
      distance |-> d,
      name |-> n,
      opening_hours |-> w,
      place_id |-> Str("p1"),
      website |-> w] :
        a \in {Undefined, Str("Damrak 1")},
        c \in {Undefined, Array(<<"catering">>)},
        d \in {Undefined, Num(0), Num(350)},
        n \in {Undefined, Str(""), Str("Cafe One")},
        w \in {Undefined, Str("https://one.example")}}

FeatureLists == UNION {[1..n -> FeatureDomain] : n \in 0..MaxFeatures}

PlacesUpstream ==
    {[features |-> <<>>, ok |-> FALSE, status |-> FailStatus]}
    \cup {[features |-> fs, ok |-> TRUE, status |-> 200] : fs \in FeatureLists}

Thrown(message) == [error |-> message, t |-> "thrown"]

InitPlaces ==
    /\ ServerInit
    /\ WebIdle
    /\ upstream \in PlacesUpstream
    /\ placesOut = Undefined

\* The key is missing: fetchPlaces throws before its request.
PlacesKeyMissing ==
    /\ placesOut = Undefined
    /\ ~Truthy(apiKey)
    /\ placesOut' = Thrown(<<"Missing GEOAPIFY_API_KEY in backend/.env">>)
    /\ UNCHANGED <<serverVars, upstream, webVars>>

\* The service answers with a non-success status: fetchPlaces throws.
PlacesFails ==
    /\ placesOut = Undefined
    /\ Truthy(apiKey)
    /\ ~upstream.ok
    /\ placesOut' = Thrown(<<"Geoapify Places failed with status", upstream.status>>)
    /\ UNCHANGED <<serverVars, upstream, webVars>>

\* The service answers with features: fetchPlaces returns their records.
PlacesMaps ==
    /\ placesOut = Undefined
    /\ Truthy(apiKey)
    /\ upstream.ok
    /\ placesOut' = Array(PlacesResult(upstream))
    /\ UNCHANGED <<serverVars, upstream, webVars>>

NextPlaces == PlacesKeyMissing \/ PlacesFails \/ PlacesMaps

SpecPlaces == InitPlaces /\ [][NextPlaces]_vars

\* ------------------------------------------------------------ the web client
\* The pages of the web client against the server: PlannerPage with its two
\* PlacesSections, and TripDetailPage.  The server's answers are those of the
\* handlers above.

\* JSON.stringify of a Date.
IsoString(date) == Str(<<date.day, "T00:00:00.000Z">>)

\* res.json(): what the client parses from a response body.  The framework's
\* pages are not JSON; the Dates of a Trip arrive as strings.
ParseJson(body) ==
    IF "html" \in DOMAIN body THEN Null
    ELSE IF "planJson" \in DOMAIN body
         THEN [body EXCEPT !.endDate = IsoString(@), !.startDate = IsoString(@)]
    ELSE body

\* data?.message || data?.error || `Request failed with status N`
ErrorMessage(data, status) ==
    IF data # Null /\ "message" \in DOMAIN data THEN data.message
    ELSE IF data # Null /\ "error" \in DOMAIN data THEN <<data.error>>
    ELSE <<"Request failed with status", status>>

Returned(data) == [data |-> data, t |-> "returned"]

\* request(): what it returns or throws for a response.
RequestResult(resp) ==
    LET data == ParseJson(resp.body) IN
    IF resp.status \in 200..299 THEN Returned(data)
    ELSE Thrown(ErrorMessage(data, resp.status))

\* The form of PlannerPage as mounted, sent with the configured user id.
FormBody ==
    [budget |-> Num(1200),
     destination |-> Str("Amsterdam"),
     endDate |-> Str("2026-02-14"),
     startDate |-> Str("2026-02-10"),
     userId |-> Str(SeedUser),
     vibe |-> Str("techno")]

\* The place lists the pages are given: every list of up to MaxPlaces of
\* three features, one list longer than a PlacesSection shows folded and one
\* longer than the detail page shows.
FeatureNear ==
    [FeatureFull EXCEPT !.distance = Num(120), !.name = Str("Near"), !.place_id = Str("p3")]

WebFeatures == <<FeatureFull, FeatureBare, FeatureNear>>

WebFeatureLists ==
    UNION {[1..n -> {FeatureFull, FeatureBare, FeatureNear}] : n \in 0..MaxPlaces}
    \cup {[i \in 1..7 |-> WebFeatures[(i % 3) + 1]], [i \in 1..11 |-> WebFeatures[(i % 3) + 1]]}

\* The answers of POST /api/trips/plan to the form: the created Trip, for
\* each answer of the places service, or a failure of an upstream service.
PlanResponses ==
    LET geoAnswer == CHOOSE a \in GeoAnswers : a.ok /\ a.results # <<>>
        geo == GeocodeResult(geoAnswer)
        weather == WeatherResult(CHOOSE a \in WeatherAnswers : a.ok)
        planJson(fs) ==
            PlanJson(FormBody, geo, weather,
                     PlacesResult([features |-> fs, ok |-> TRUE, status |-> 200]),
                     PlacesResult([features |-> <<FeatureBare, FeatureFull>>, ok |-> TRUE,
                                   status |-> 200]))
    IN {PlanOnCreate("", NewRow(TripData(FormBody, geo, planJson(fs)))).responses[1] :
            fs \in WebFeatureLists}
       \cup {ServerError(<<"Weather failed with status", FailStatus>>).responses[1]}

\* The answers of GET /api/trips/:id: none when the rejection of the lookup
\* is dropped.
GetTripResponses(id) ==
    {GetTripOnFind(err, FindUnique(id), onReject).responses :
        err \in {"", "Can't reach database server"}, onReject \in RejectOutcomes}

\* [...places].sort((a, b) => da - db) with da = a?.distanceMeters ?? Infinity:
\* the sign of the comparator; Infinity - Infinity is NaN, which sort takes
\* for 0.
CompareDistance(a, b) ==
    LET da == a.distanceMeters
        db == b.distanceMeters
    IN IF da = Null /\ db = Null THEN 0
       ELSE IF da = Null THEN 1
       ELSE IF db = Null THEN -1
       ELSE IF da.tenths < db.tenths THEN -1
       ELSE IF da.tenths > db.tenths THEN 1
       ELSE 0

\* Array.prototype.sort is stable: x goes behind every element it does not
\* precede.
RECURSIVE InsertSorted(_, _)
InsertSorted(x, sorted) ==
    IF sorted = <<>> THEN <<x>>
    ELSE IF CompareDistance(x, Head(sorted)) < 0 THEN <<x>> \o sorted
    ELSE <<Head(sorted)>> \o InsertSorted(x, Tail(sorted))

RECURSIVE SortByDistance(_)
SortByDistance(places) ==
    IF places = <<>> THEN <<>>
    ELSE InsertSorted(places[Len(places)], SortByDistance(SubSeq(places, 1, Len(places) - 1)))

\* array.slice(0, n)
Slice(array, n) == SubSeq(array, 1, IF Len(array) < n THEN Len(array) ELSE n)

\* trip?.planJson?.places?.[kind] ?? []
PlacesOf(trip, kind) ==
    IF trip = Null THEN <<>>
    ELSE IF "places" \notin DOMAIN trip.planJson THEN <<>>
    ELSE trip.planJson.places[kind]

FoldedPlaces == 6
DetailPlaces == 10

\* The places a PlacesSection of PlannerPage shows.
PlannerShown(kind) ==
    LET sorted == SortByDistance(PlacesOf(planner.result, kind))
    IN IF planner.showAll[kind] THEN sorted ELSE Slice(sorted, FoldedPlaces)

\* The places TripDetailPage shows.
DetailShown(kind) == Slice(PlacesOf(detail.trip, kind), DetailPlaces)

PlaceKinds == {"restaurants", "attractions"}

RouteIds == {"t1", "t2", "t9"}

InitWeb ==
    /\ ServerInit
    /\ apiKey = Str("key")
    /\ PlacesIdle
    /\ planner = PlannerMounted
    /\ \E id \in RouteIds : detail = DetailMounted(id)

\* The user clicks "Plan trip" (disabled while loading).
OnPlanTrip ==
    /\ ~planner.loading
    /\ planner.started < MaxPlans
    /\ planner' = [planner EXCEPT !.error = <<>>, !.inflight = TRUE, !.loading = TRUE,
                                  !.result = Null, !.started = @ + 1]
    /\ UNCHANGED <<serverVars, placesVars, detail>>

\* planTrip settles: the server has answered, and stored the Trip if it
\* answered 201.
PlanTripReturns ==
    /\ planner.inflight
    /\ \E resp \in PlanResponses :
        LET out == RequestResult(resp) IN
        /\ planner' = [planner EXCEPT
                            !.error = IF out.t = "thrown" THEN out.error ELSE @,
                            !.inflight = FALSE,
                            !.loading = FALSE,
                            !.result = IF out.t = "returned" THEN out.data ELSE @]
        /\ trips' = IF resp.status = 201 THEN Append(trips, resp.body) ELSE trips
        /\ owner' = IF resp.status = 201 THEN Append(owner, 0) ELSE owner
    /\ UNCHANGED <<users, apiKey, nreq, req, pc, local, responses, net, log, got>>
    /\ UNCHANGED <<placesVars, detail>>

\* The user clicks "Show more" or "Show less", offered when the section has
\* more than six places.
ToggleShowAll ==
    \E kind \in PlaceKinds :
        /\ Len(PlacesOf(planner.result, kind)) > FoldedPlaces
        /\ planner' = [planner EXCEPT !.showAll[kind] = ~@]
        /\ UNCHANGED <<serverVars, placesVars, detail>>

\* The route id changes while TripDetailPage stays mounted: the effect runs
\* again and starts a load for the new id.
Navigate ==
    \E id \in RouteIds :
        /\ id # detail.id
        /\ detail.started < MaxLoads
        /\ detail' = [detail EXCEPT
                            !.error = <<>>,
                            !.id = id,
                            !.loading = TRUE,
                            !.loads = @ \cup {[id |-> id, started |-> detail.started + 1]},
                            !.started = @ + 1]
        /\ UNCHANGED <<serverVars, placesVars, planner>>

\* A getTrip settles, in any order: load() sets the trip or the error, then
\* clears the loading flag.
GetTripReturns ==
    \E l \in detail.loads : \E resp \in GetTripResponses(l.id) :
        /\ resp # <<>>
        /\ LET out == RequestResult(resp[1]) IN
           /\ detail' = [detail EXCEPT
                            !.error = IF out.t = "thrown" THEN out.error ELSE @,
                            !.loading = FALSE,
                            !.loads = @ \ {l},
                            !.trip = IF out.t = "returned" THEN out.data ELSE @]
           /\ UNCHANGED <<serverVars, placesVars, planner>>

NextWeb == OnPlanTrip \/ PlanTripReturns \/ ToggleShowAll \/ Navigate \/ GetTripReturns

SpecWeb == InitWeb /\ [][NextWeb]_vars

TypeOK ==
    /\ nreq \in 0..MaxReq
    /\ \A r \in ReqIds : pc[r] \in {"idle", "geo", "weather", "restaurants", "attractions",
                                    "create", "find", "done"}
    /\ Len(trips) <= Len(IdTable)

\* ================================================================ properties
IsPlan(r) == pc[r] # "idle" /\ Route(req[r].method, req[r].path) = "plan"
IsGetTrip(r) == pc[r] # "idle" /\ Route(req[r].method, req[r].path) = "getTrip"

ValidPlan(r) == IsPlan(r) /\ \A f \in Fields : FieldOk(req[r].body, f)

\* The trips request r inserted.
TripsOf(r) == {i \in 1..Len(trips) : owner[i] = r}

\* Request r has been answered once, with this status.
AnsweredOnce(r, status) ==
    pc[r] = "done" /\ Len(responses[r]) = 1 /\ responses[r][1].status = status

\* ---- C1
\* The bodies the claim names: a required field is missing, the budget is a
\* number that is <= 0 or not an integer, or the vibe is a string outside
\* the enumeration.
C1Rejected(body) ==
    \/ \E f \in Fields : body[f] = Undefined
    \/ IsNumber(body.budget) /\ (body.budget.tenths <= 0 \/ body.budget.tenths % 10 # 0)
    \/ IsString(body.vibe) /\ body.vibe.s \notin {"techno", "nature", "relax", "food", "mixed"}

\* C1: a plan request whose body misses a required field, or whose budget is
\* <= 0 or not an integer, or whose vibe is outside the enumeration, is
\* answered with 400, issues no outbound call and writes no Trip row.
C1_InvalidPlanRejected ==
    \A r \in ReqIds :
        IsPlan(r) /\ C1Rejected(req[r].body) =>
            /\ AnsweredOnce(r, 400)
            /\ log[r] = <<>>
            /\ {m \in net : m.req = r} = {}
            /\ TripsOf(r) = {}

C1_Witness ==
    \E r1, r2 \in ReqIds :
        /\ IsPlan(r1) /\ req[r1].body.budget = Num(0) /\ AnsweredOnce(r1, 400)
        /\ IsPlan(r2) /\ req[r2].body.vibe = Str("party") /\ AnsweredOnce(r2, 400)

\* ---- C2
\* The geocoder answered request r with success and no match.
GeocodeNoMatch(r) == Len(got[r]) >= 1 /\ got[r][1].ok /\ got[r][1].results = <<>>

\* C2: a valid plan request whose destination the geocoder does not resolve
\* is answered with 404; it issued the geocoding call and nothing after it,
\* and it wrote no Trip.
C2_UnresolvedIs404 ==
    \A r \in ReqIds :
        IsPlan(r) /\ GeocodeNoMatch(r) /\ ValidPlan(r) =>
            /\ AnsweredOnce(r, 404)
            /\ Len(log[r]) = 1 /\ log[r][1].svc = "geocoding"
            /\ {m \in net : m.req = r} = {}
            /\ TripsOf(r) = {}

C2_Witness ==
    \E r \in ReqIds : ValidPlan(r) /\ GeocodeNoMatch(r) /\ AnsweredOnce(r, 404)

\* ---- C3
\* One of the calls of request r was answered with a failure: a non-success
\* status of an upstream service, or an error of the store.
StepFailed(r) == \E i \in 1..Len(got[r]) : ~got[r][i].ok

\* C3: a valid plan request one of whose steps failed (geocoding, weather,
\* restaurants, attractions or the Trip write) is answered with 500 and has
\* no Trip row.
C3_FailureIs500NoTrip ==
    \A r \in ReqIds :
        IsPlan(r) /\ StepFailed(r) /\ ValidPlan(r) =>
            /\ AnsweredOnce(r, 500)
            /\ TripsOf(r) = {}
            /\ {m \in net : m.req = r} = {}

\* Every step has been seen to fail: request 1 at the write, request 2 at the
\* weather call.
C3_Witness ==
    /\ ValidPlan(1) /\ Len(got[1]) = 5 /\ ~got[1][5].ok /\ AnsweredOnce(1, 500)
    /\ ValidPlan(2) /\ Len(got[2]) = 2 /\ ~got[2][2].ok /\ AnsweredOnce(2, 500)

\* ---- C4
\* All five steps of request r succeeded and the geocoder found a place.
AllStepsSucceeded(r) ==
    /\ Len(got[r]) = 5
    /\ \A i \in 1..5 : got[r][i].ok
    /\ got[r][1].results # <<>>

\* C4: a valid plan request all of whose steps succeed is answered with 201
\* and the one Trip it created: the row of the store carries the request's
\* userId, budget and vibe, the geocoder's place name as destination, and a
\* planJson with the echoed input, the fetched weather and one place record
\* per fetched feature.
C4_SuccessCreatesTrip ==
    \A r \in ReqIds :
        IsPlan(r) /\ AllStepsSucceeded(r) /\ ValidPlan(r) =>
            /\ AnsweredOnce(r, 201)
            /\ Cardinality(TripsOf(r)) = 1
            /\ LET trip == responses[r][1].body
                   body == req[r].body
               IN /\ \A i \in TripsOf(r) : trips[i] = trip
                  /\ trip.userId = body.userId.s
                  /\ trip.destination = got[r][1].results[1].name.s
                  /\ trip.budget = body.budget
                  /\ trip.vibe = body.vibe.s
                  /\ trip.planJson.trip =
                        [budget |-> body.budget,
                         endDate |-> body.endDate.s,
                         startDate |-> body.startDate.s,
                         vibe |-> body.vibe.s]
                  /\ trip.planJson.destination.query = body.destination.s
                  /\ trip.planJson.weather.daily.time = got[r][2].daily.time
                  /\ trip.planJson.weather.daily.tempMax = got[r][2].daily.temperature_2m_max
                  /\ trip.planJson.weather.daily.tempMin = got[r][2].daily.temperature_2m_min
                  /\ trip.planJson.weather.daily.precipitation =
                        got[r][2].daily.precipitation_sum
                  /\ Len(trip.planJson.places.restaurants) = Len(got[r][3].features)
                  /\ Len(trip.planJson.places.attractions) = Len(got[r][4].features)
                  /\ \A i \in 1..Len(got[r][3].features) :
                        trip.planJson.places.restaurants[i].placeId = got[r][3].features[i].place_id
                  /\ \A i \in 1..Len(got[r][4].features) :
                        trip.planJson.places.attractions[i].placeId = got[r][4].features[i].place_id

\* A created trip whose destination is the resolved name and not the input.
C4_Witness ==
    \E r \in ReqIds :
        /\ ValidPlan(r) /\ AllStepsSucceeded(r) /\ AnsweredOnce(r, 201)
        /\ responses[r][1].body.destination = "Amsterdam"
        /\ req[r].body.destination.s = "ams"

\* ---- C5
IsList(r) ==
    /\ pc[r] # "idle"
    /\ req[r].method = "GET" /\ req[r].path = <<"api", "trips">>
    /\ IsString(req[r].query)

\* The stored trips of user u, in insertion order.
RECURSIVE TripsOfUser(_, _)
TripsOfUser(rows, u) ==
    IF rows = <<>> THEN <<>>
    ELSE IF Head(rows).userId = u THEN <<Head(rows)>> \o TripsOfUser(Tail(rows), u)
    ELSE TripsOfUser(Tail(rows), u)

\* C5: GET /api/trips?userId=U is answered with the array of exactly the
\* trips stored for user U.
C5_ListReturnsUserTrips ==
    \A r \in ReqIds :
        IsList(r) =>
            /\ AnsweredOnce(r, 200)
            /\ responses[r][1].body = TripsOfUser(trips, req[r].query.s)

\* ---- C6
\* The lookup of GET /api/trips/:id completed without a store error.
LookupCompleted(r) == IsGetTrip(r) /\ Len(got[r]) = 1 /\ got[r][1].ok

\* C6: when its lookup completes, GET /api/trips/:id answers 200 with the
\* stored Trip of that id if the store held one, and 404 if it held none;
\* the handler issued nothing but the read and wrote no row.
C6_GetTripFoundOr404 ==
    \A r \in ReqIds :
        LookupCompleted(r) =>
            /\ IF req[r].path[3] \in got[r][1].stored
               THEN /\ AnsweredOnce(r, 200)
                    /\ responses[r][1].body.id = req[r].path[3]
                    /\ \E i \in 1..Len(trips) : trips[i] = responses[r][1].body
               ELSE /\ AnsweredOnce(r, 404)
                    /\ responses[r][1].body = [error |-> "Trip not found"]
            /\ Len(log[r]) = 1 /\ log[r][1].svc = "trip.findUnique"
            /\ TripsOf(r) = {}

\* One lookup found the seeded trip, another found nothing.
C6_Witness ==
    \E r1, r2 \in ReqIds :
        /\ LookupCompleted(r1) /\ AnsweredOnce(r1, 200) /\ responses[r1][1].body = SeedTrip
        /\ LookupCompleted(r2) /\ AnsweredOnce(r2, 404)

\* ---- C7
\* C7: two plan requests with the same valid body that are both answered
\* with 201 created two rows with different ids.
C7_PlanNotIdempotent ==
    \A r1, r2 \in ReqIds :
        /\ r1 < r2
        /\ AnsweredOnce(r1, 201) /\ AnsweredOnce(r2, 201)
        /\ req[r1].body = req[r2].body
        /\ ValidPlan(r1) /\ ValidPlan(r2)
        => /\ responses[r1][1].body.id # responses[r2][1].body.id
           /\ Cardinality(TripsOf(r1) \cup TripsOf(r2)) = 2
           /\ Cardinality({trips[i].id : i \in TripsOf(r1) \cup TripsOf(r2)}) = 2

\* Two requests with the same body and the same upstream answers, both 201.
C7_Witness ==
    /\ ValidPlan(1) /\ ValidPlan(2)
    /\ req[1].body = req[2].body
    /\ AnsweredOnce(1, 201) /\ AnsweredOnce(2, 201)
    /\ \A i \in 1..4 : got[1][i] = got[2][i]
    /\ Len(trips) = 3

\* ---- C8
\* The response body shows an error message: the message member of the JSON
\* the plan handler sends, or the error line of the framework's error page.
EchoesError(body) ==
    \/ "message" \in DOMAIN body
    \/ "html" \in DOMAIN body /\ body.html[1] = "Error: "

\* C8: a plan or get-by-id request one of whose calls failed (an upstream
\* failure or an error of the store) is answered, once its handler has ended,
\* with one 500 response that echoes the error message.
C8_FailuresAnswered500 ==
    \A r \in ReqIds :
        (IsPlan(r) \/ IsGetTrip(r)) /\ StepFailed(r) /\ pc[r] = "done" =>
            /\ AnsweredOnce(r, 500)
            /\ EchoesError(responses[r][1].body)

\* ---- C9
\* C9: every stored Trip references a User of the store; a valid plan request
\* for an unknown user is not rejected before its outbound calls, creates no
\* Trip, and its write fails and is answered with 500.
C9_TripsBelongToUsers ==
    /\ \A i \in 1..Len(trips) : trips[i].userId \in users
    /\ \A r \in ReqIds :
        /\ IsPlan(r)
        /\ IsString(req[r].body.userId) /\ req[r].body.userId.s \notin users
        /\ ValidPlan(r)
        => /\ TripsOf(r) = {}
           /\ Len(log[r]) >= 1 /\ log[r][1].svc = "geocoding"
           /\ Len(got[r]) = 5 => ~got[r][5].ok /\ AnsweredOnce(r, 500)

\* A request for an unknown user went through its four outbound calls and
\* failed at the write, while the database was reachable.
C9_Witness ==
    \E r \in ReqIds :
        /\ ValidPlan(r) /\ req[r].body.userId.s \notin users
        /\ Len(got[r]) = 5 /\ \A i \in 1..4 : got[r][i].ok
        /\ got[r][5].error = "No 'User' record was found for a nested connect on 'Trip'"
        /\ AnsweredOnce(r, 500)

\* ---- C10
\* The side-effecting steps of the plan handler, in order.
StepName(call) ==
    IF call.svc = "places" THEN <<call.svc, call.categories>> ELSE <<call.svc, "">>

PlanSteps ==
    <<<<"geocoding", "">>, <<"weather", "">>,
      <<"places", "catering.restaurant,catering.cafe">>,
      <<"places", "tourism.attraction,tourism.sights">>,
      <<"trip.create", "">> >>

\* C10: the steps a plan request has issued are a prefix of geocoding,
\* weather, restaurants, attractions, Trip write; a step is issued only when
\* every earlier one has been answered with success, and the request never
\* has two calls in flight.
C10_StepsSequential ==
    \A r \in ReqIds :
        IsPlan(r) =>
            /\ Len(log[r]) <= Len(PlanSteps)
            /\ \A i \in 1..Len(log[r]) : StepName(log[r][i]) = PlanSteps[i]
            /\ Cardinality({m \in net : m.req = r}) <= 1
            /\ Len(got[r]) = Len(log[r]) - Cardinality({m \in net : m.req = r})
            /\ \A i \in 1..(Len(log[r]) - 1) : got[r][i].ok
            /\ Len(log[r]) >= 2 => got[r][1].results # <<>>

\* One request has gone through all five steps while another is stopped
\* after its second.
C10_Witness ==
    \E r1, r2 \in ReqIds :
        /\ IsPlan(r1) /\ Len(log[r1]) = 5 /\ AnsweredOnce(r1, 201)
        /\ IsPlan(r2) /\ Len(log[r2]) = 2 /\ AnsweredOnce(r2, 500)

\* ---- C11
\* A date string of at least 8 characters: a string that denotes a calendar
\* date.
IsDateString(v) == IsString(v) /\ Len(v.s) >= 8 /\ NewDate(v).valid

\* The conditions the claim lists.
C11Conditions(body) ==
    /\ IsString(body.userId) /\ body.userId.s # ""
    /\ IsString(body.destination) /\ Len(body.destination.s) >= 2
    /\ IsDateString(body.startDate) /\ IsDateString(body.endDate)
    /\ IsNumber(body.budget) /\ body.budget.tenths > 0 /\ body.budget.tenths % 10 = 0
    /\ IsString(body.vibe)
    /\ body.vibe.s \in {"techno", "nature", "relax", "food", "mixed"}

ReachedGeocoding(r) == Len(log[r]) >= 1 /\ log[r][1].svc = "geocoding"

\* C11: a plan request reaches the geocoding call if and only if its body
\* meets the listed conditions; a request whose startDate or endDate is not a
\* date string is answered with 400 and issues no outbound call.
C11_ValidatedIffWellFormed ==
    \A r \in ReqIds :
        IsPlan(r) =>
            /\ ReachedGeocoding(r) <=> C11Conditions(req[r].body)
            /\ ~(IsDateString(req[r].body.startDate) /\ IsDateString(req[r].body.endDate)) =>
                    AnsweredOnce(r, 400) /\ log[r] = <<>>

\* ---- C12
\* Request r reached the places step: its weather call was answered with
\* success.
ReachedPlaces(r) == IsPlan(r) /\ Len(got[r]) >= 2 /\ got[r][2].ok /\ ValidPlan(r)

\* C12: with the places key absent, no request is ever sent to the places
\* service, and every plan request that reaches the places step is answered
\* with 500 for the missing key and writes no Trip.
C12_MissingKeyFailsBeforeRequest ==
    apiKey = Undefined =>
        /\ \A m \in net : m.call.svc # "places"
        /\ \A r \in ReqIds :
            /\ \A i \in 1..Len(log[r]) : log[r][i].svc # "places"
            /\ ReachedPlaces(r) =>
                    /\ AnsweredOnce(r, 500)
                    /\ responses[r][1].body.message = <<"Missing GEOAPIFY_API_KEY in backend/.env">>
                    /\ Len(log[r]) = 2
                    /\ TripsOf(r) = {}

C12_Witness ==
    /\ apiKey = Undefined
    /\ \E r \in ReqIds : ReachedPlaces(r) /\ AnsweredOnce(r, 500)

\* ---- C13
\* The requests answered with 201.
Created == {r \in ReqIds : AnsweredOnce(r, 201)}

\* C13: the store holds the seeded row and, after it, exactly one row per
\* plan request answered with 201, each still as it was when it was created
\* and returned; no other request has a row, and no two rows share an id.
C13_TripsCreateOnly ==
    /\ trips[1] = SeedTrip /\ owner[1] = 0
    /\ Len(trips) = 1 + Cardinality(Created)
    /\ \A i \in 2..Len(trips) :
            /\ owner[i] \in Created /\ IsPlan(owner[i])
            /\ trips[i] = responses[owner[i]][1].body
    /\ \A i, j \in 1..Len(trips) : trips[i].id = trips[j].id => i = j
    /\ \A r \in ReqIds : Cardinality(TripsOf(r)) = IF r \in Created THEN 1 ELSE 0

\* Two plan requests for the same user and destination created a row each.
C13_Witness ==
    /\ Created = {1, 2}
    /\ Len(trips) = 3
    /\ trips[2].destination = trips[3].destination
    /\ trips[2].userId = trips[3].userId

\* ---- C14
\* Two bodies that differ in their vibe and in nothing else.
DifferOnlyInVibe(b1, b2) ==
    /\ b1.vibe # b2.vibe
    /\ [b1 EXCEPT !.vibe = Undefined] = [b2 EXCEPT !.vibe = Undefined]

\* The first n answers of the two requests are the same.
SameAnswers(r1, r2, n) ==
    /\ Len(got[r1]) >= n /\ Len(got[r2]) >= n
    /\ \A j \in 1..n : got[r1][j] = got[r2][j]

\* The plan document without the two members that carry the vibe.
WithoutVibe(planJson) == [planJson EXCEPT !.summary = <<>>, !.trip.vibe = ""]

\* C14: two valid plan requests that differ only in vibe issue, as long as
\* their upstream answers agree, the same outbound calls with the same
\* parameters, and their plan documents differ only in the echoed vibe and
\* the summary.
C14_VibeDoesNotReachQueries ==
    \A r1, r2 \in ReqIds :
        /\ r1 < r2
        /\ IsPlan(r1) /\ IsPlan(r2)
        /\ DifferOnlyInVibe(req[r1].body, req[r2].body)
        /\ ValidPlan(r1) /\ ValidPlan(r2)
        => /\ \A i \in 1..4 :
                    Len(log[r1]) >= i /\ Len(log[r2]) >= i /\ SameAnswers(r1, r2, i - 1) =>
                        log[r1][i] = log[r2][i]
           /\ Len(log[r1]) = 5 /\ Len(log[r2]) = 5 /\ SameAnswers(r1, r2, 4) =>
                    LET p1 == log[r1][5].data.planJson
                        p2 == log[r2][5].data.planJson
                    IN /\ WithoutVibe(p1) = WithoutVibe(p2)
                       /\ p1.trip.vibe = req[r1].body.vibe.s
                       /\ p2.trip.vibe = req[r2].body.vibe.s

C14_Witness ==
    /\ ValidPlan(1) /\ ValidPlan(2)
    /\ DifferOnlyInVibe(req[1].body, req[2].body)
    /\ Len(log[1]) = 5 /\ Len(log[2]) = 5 /\ SameAnswers(1, 2, 4)
    /\ log[1][5].data.planJson.summary # log[2][5].data.planJson.summary

\* ---- C15
\* A property the feature has: a non-empty string.
Present(v) == IsString(v) /\ v.s # ""

\* C15: fetchPlaces returns one record per upstream feature, in the upstream
\* order; the record's name is the feature's name, else its address line 1,
\* else "Unknown place"; its categories are the feature's or empty; its
\* distanceMeters is the feature's distance or null; its website and
\* openingHours are the feature's or null.
C15_PlacesNormalized ==
    placesOut.t = "array" =>
        /\ Len(placesOut.items) = Len(upstream.features)
        /\ \A i \in 1..Len(upstream.features) :
            LET f == upstream.features[i]
                place == placesOut.items[i]
            IN /\ place.name = IF Present(f.name) THEN f.name
                                ELSE IF Present(f.address_line1) THEN f.address_line1
                                ELSE Str("Unknown place")
               /\ place.categories = IF f.categories = Undefined THEN <<>>
                                      ELSE f.categories.items
               /\ place.distanceMeters = IF f.distance = Undefined THEN Null ELSE f.distance
               /\ place.website = IF Present(f.website) THEN f.website ELSE Null
               /\ place.openingHours = IF Present(f.opening_hours) THEN f.opening_hours
                                        ELSE Null

\* A feature with neither name nor address, followed by one at distance 0.
C15_Witness ==
    /\ placesOut.t = "array" /\ Len(placesOut.items) = 2
    /\ upstream.features[1].name = Undefined
    /\ upstream.features[1].address_line1 = Undefined
    /\ placesOut.items[1].name = Str("Unknown place")
    /\ placesOut.items[1].distanceMeters = Null
    /\ upstream.features[2].distance = Num(0)
    /\ placesOut.items[2].distanceMeters = Num(0)
    /\ placesOut.items[2].name = Str("Cafe One")

\* ---- C16
\* The places of a shown list are in nondecreasing order of distance, those
\* without a distance last.
ByDistance(shown) ==
    \A i, j \in 1..Len(shown) :
        i < j =>
            /\ shown[i].distanceMeters = Null => shown[j].distanceMeters = Null
            /\ shown[i].distanceMeters # Null /\ shown[j].distanceMeters # Null =>
                    shown[i].distanceMeters.tenths <= shown[j].distanceMeters.tenths

Occurrences(place, list) == Cardinality({i \in 1..Len(list) : list[i] = place})

\* Every shown place is a stored place, shown no more often than stored.
FromStored(shown, stored) ==
    \A i \in 1..Len(shown) : Occurrences(shown[i], shown) <= Occurrences(shown[i], stored)

\* C16: the restaurants and attractions shown by the planner page for its
\* result, and by the trip detail page for its trip, are in nondecreasing
\* order of distanceMeters with the places without a distance last, and are
\* places of the stored list, none shown more often than stored.
C16_ShownByDistance ==
    \A kind \in PlaceKinds :
        /\ ByDistance(PlannerShown(kind))
        /\ FromStored(PlannerShown(kind), PlacesOf(planner.result, kind))
        /\ ByDistance(DetailShown(kind))
        /\ FromStored(DetailShown(kind), PlacesOf(detail.trip, kind))

\* The planner page's part of C16, which its PlacesSections meet.
C16_PlannerShownByDistance ==
    \A kind \in PlaceKinds :
        /\ ByDistance(PlannerShown(kind))
        /\ FromStored(PlannerShown(kind), PlacesOf(planner.result, kind))

\* ---- C18
\* C18: on the trip detail page, once no load is in flight the trip shown is
\* the trip of the current route id, and no error is shown beside a trip;
\* while a load for the current id is in flight the loading flag is set.
C18_DetailShowsCurrentId ==
    /\ detail.loads = {} =>
            /\ detail.trip # Null => detail.trip.id = detail.id
            /\ detail.trip # Null => detail.error = <<>>
    /\ (\E l \in detail.loads : l.id = detail.id) => detail.loading

\* ---- C17
PlanStatuses == {201, 400, 404, 500}

\* Request r has its one response, with a status of the handler.
PlanAnswered(r) ==
    /\ pc[r] = "done"
    /\ Len(responses[r]) = 1
    /\ responses[r][1].status \in PlanStatuses

\* C17: when every call completes, a plan request eventually has exactly one
\* response, with status 201, 400, 404 or 500; at no moment has it two
\* responses, and it has a 201 only once its Trip write has completed.
C17_PlanAnsweredExactlyOnce ==
    /\ [](\A r \in ReqIds :
            IsPlan(r) =>
                /\ Len(responses[r]) <= 1
                /\ \A i \in 1..Len(responses[r]) :
                        /\ responses[r][i].status \in PlanStatuses
                        /\ responses[r][i].status = 201 =>
                                /\ Len(got[r]) = 5 /\ got[r][5].ok
                                /\ \E k \in TripsOf(r) : trips[k] = responses[r][i].body)
    /\ \A r \in ReqIds : IsPlan(r) ~> PlanAnswered(r)

\* One plan request was answered with 404 after its geocoding call, another
\* with 201 after its write.
C17_Witness ==
    \E r1, r2 \in ReqIds :
        /\ IsPlan(r1) /\ PlanAnswered(r1) /\ responses[r1][1].status = 404 /\ Len(got[r1]) = 1
        /\ IsPlan(r2) /\ PlanAnswered(r2) /\ responses[r2][1].status = 201 /\ Len(got[r2]) = 5

====
